---------------------------- MODULE Spec2Model ----------------------------
(***************************************************************************)
(* A model of script.js (class StockAnalysisApp): the returns /            *)
(* covariance / Jacobi eigen-decomposition pipeline and the click handler  *)
(* that drives it.                                                         *)
(*                                                                         *)
(* Numbers.  JavaScript numbers are IEEE doubles.  The model keeps what    *)
(* matters of them for the properties below: a number is either NaN or a   *)
(* fixed-point value, an integer count of units with One units to 1.0,     *)
(* and every product and quotient is rounded to the nearest unit (ties to  *)
(* even), as every floating-point operation is rounded to the nearest      *)
(* double.  Sums and differences of fixed-point values are exact.          *)
(* Math.atan2, Math.cos and Math.sin are evaluated to the precision of a   *)
(* table: the angle is rounded to the nearest multiple of pi/4 (so theta   *)
(* to a multiple of pi/8) and cos and sin of those angles are rounded to   *)
(* the unit.  Infinity arises from a division by zero or as an entry of   *)
(* an input; the model has no overflow and no negative zero.               *)
(***************************************************************************)
EXTENDS Integers, Sequences, FiniteSets, TLC

VARIABLES
    \* jacobiMethod(matrix): its argument, its locals and its position
    matrix, values, vectors, iter, max, p, q, jpc, result,
    \* performAnalysis(stockData): its argument and what it returned
    stockData, analysis, apc,
    \* the page: the two date inputs, the spinner, the results section,
    \* the alerts shown, the analyzeStocks invocations awaiting their fetch
    startDate, endDate, spinnerHidden, resultsHidden, shown, alerts, pending,
    \* the number of fetches issued so far
    fetches

jvars == <<matrix, values, vectors, iter, max, p, q, jpc, result>>
avars == <<stockData, analysis, apc>>
uvars == <<startDate, endDate, spinnerHidden, resultsHidden, shown, alerts, pending,
           fetches>>
vars == <<jvars, avars, uvars>>

---------------------------------------------------------------------------
(* Numbers *)

\* units per 1.0 of the fixed-point numbers
One == 10

\* the value NaN (not a count of units)
NaN == -1000000

\* +Infinity and -Infinity, beyond every count of units of the model
PosInf == 999999
NegInf == -999999

IsNaN(a) == a = NaN
IsInf(a) == a = PosInf \/ a = NegInf
Finite(a) == ~IsNaN(a) /\ ~IsInf(a)

\* x / d rounded to the nearest integer, ties to even (d > 0)
Rnd(x, d) ==
    LET fl == x \div d
        r == x - fl * d
    IN  IF 2 * r < d THEN fl
        ELSE IF 2 * r > d THEN fl + 1
        ELSE IF fl % 2 = 0 THEN fl ELSE fl + 1

\* a + b
Add(a, b) ==
    IF IsNaN(a) \/ IsNaN(b) THEN NaN
    ELSE IF IsInf(a) /\ IsInf(b) THEN (IF a = b THEN a ELSE NaN)
    ELSE IF IsInf(a) THEN a
    ELSE IF IsInf(b) THEN b
    ELSE a + b

\* a - b
Sub(a, b) == IF IsNaN(b) THEN NaN ELSE Add(a, 0 - b)

\* a * b
Mul(a, b) ==
    IF IsNaN(a) \/ IsNaN(b) THEN NaN
    ELSE IF IsInf(a) \/ IsInf(b)
         THEN IF a = 0 \/ b = 0 THEN NaN
              ELSE IF (a > 0) = (b > 0) THEN PosInf ELSE NegInf
    ELSE Rnd(a * b, One)

\* a / b
Div(a, b) ==
    IF IsNaN(a) \/ IsNaN(b) THEN NaN
    ELSE IF IsInf(a) THEN (IF IsInf(b) THEN NaN ELSE IF b >= 0 THEN a ELSE 0 - a)
    ELSE IF IsInf(b) THEN 0
    ELSE IF b = 0
         THEN IF a = 0 THEN NaN ELSE IF a > 0 THEN PosInf ELSE NegInf
    ELSE IF b > 0 THEN Rnd(a * One, b) ELSE Rnd((0 - a) * One, 0 - b)

\* a / n for a count n (an integer, not a fixed-point value)
DivCount(a, n) == Div(a, n * One)

\* sq.reduce((a, b) => a + b, 0)
RECURSIVE SumSeq(_)
SumSeq(sq) == IF sq = <<>> THEN 0 ELSE Add(sq[1], SumSeq(Tail(sq)))

\* Math.abs(a)
Abs(a) == IF IsNaN(a) THEN NaN ELSE IF a < 0 THEN 0 - a ELSE a

\* a > b
Gt(a, b) == ~IsNaN(a) /\ ~IsNaN(b) /\ a > b

\* a < b
Lt(a, b) == ~IsNaN(a) /\ ~IsNaN(b) /\ a < b

\* a >= b
Ge(a, b) == ~IsNaN(a) /\ ~IsNaN(b) /\ a >= b

\* a == b
Eq(a, b) == ~IsNaN(a) /\ ~IsNaN(b) /\ a = b

---------------------------------------------------------------------------
(* jacobiMethod *)

\* the iteration cap of the loop
MaxIter == 50

\* the tolerance 1e-10 in units: the unit is no finer than 1e-10, so a
\* magnitude is below 1e-10 exactly when it is below one unit
Tol == 1

\* cos and sin of k*pi/8, k = 0..4, to the unit
CosT == <<10, 9, 7, 4, 0>>
SinT == <<0, 4, 7, 9, 10>>

\* the directions of the angles k*pi/4, k = 0..4, to the unit
DirX == <<10, 7, 0, -7, -10>>
DirY == <<0, 7, 10, 7, 0>>

\* Math.atan2(y, x) to the nearest multiple of pi/4: the k in -4..4 whose
\* direction is nearest to (x, y), the smaller angle on a tie
Atan2(y, x) ==
    LET ay == Abs(y)
        dot(k) == DirX[k + 1] * x + DirY[k + 1] * ay
        best == CHOOSE k \in 0..4 :
                    /\ \A l \in 0..4 : dot(k) >= dot(l)
                    /\ \A l \in 0..(k - 1) : dot(l) < dot(k)
    IN  IF y < 0 THEN 0 - best ELSE best

\* theta = 0.5 * Math.atan2(2 * values[p][q], values[q][q] - values[p][p]);
\* c = Math.cos(theta); s = Math.sin(theta)
Rotation(vals, pp, qq) ==
    LET y == Add(vals[pp][qq], vals[pp][qq])
        x == Sub(vals[qq][qq], vals[pp][pp])
    IN  IF IsNaN(x) \/ IsNaN(y) THEN [c |-> NaN, s |-> NaN]
        ELSE LET k == Atan2(y, x)
                 ak == IF k < 0 THEN 0 - k ELSE k
             IN  [c |-> CosT[ak + 1],
                  s |-> IF k < 0 THEN 0 - SinT[ak + 1] ELSE SinT[ak + 1]]

\* the identity matrix of size n
Identity(n) == [i \in 1..n |-> [j \in 1..n |-> IF i = j THEN One ELSE 0]]

\* the scan of the strict upper triangle, from (i, j) on, st = [max, p, q]
RECURSIVE ScanLoop(_, _, _, _)
ScanLoop(vals, i, j, st) ==
    IF i > Len(vals) THEN st
    ELSE IF j > Len(vals) THEN ScanLoop(vals, i + 1, i + 2, st)
    ELSE ScanLoop(vals, i, j + 1,
                  IF Gt(Abs(vals[i][j]), st.max)
                  THEN [max |-> Abs(vals[i][j]), p |-> i, q |-> j]
                  ELSE st)

\* a scan that keeps the last of the largest magnitudes, not the first
ScanPivotLast(vals) ==
    LET st == ScanLoop(vals, 1, 2, [max |-> 0, p |-> 1, q |-> 1])
        ties == {pr \in (1..Len(vals)) \X (1..Len(vals)) :
                    pr[1] < pr[2] /\ Eq(Abs(vals[pr[1]][pr[2]]), st.max)}
        last == CHOOSE pr \in ties : \A o \in ties :
                    o[1] < pr[1] \/ (o[1] = pr[1] /\ o[2] <= pr[2])
    IN  IF ties = {} THEN st ELSE [max |-> st.max, p |-> last[1], q |-> last[2]]

\* let max = 0; let p = 0, q = 0; and the two scan loops (indices from 1)
ScanPivot(vals) == ScanLoop(vals, 1, 2, [max |-> 0, p |-> 1, q |-> 1])

\* a rotation whose second diagonal update subtracts the cross term
RotateValuesSkewed(vals, pp, qq, c, s) ==
    LET n == Len(vals)
        rowP(r) == Sub(Mul(c, vals[pp][r]), Mul(s, vals[qq][r]))
        rowQ(r) == Add(Mul(s, vals[pp][r]), Mul(c, vals[qq][r]))
        cs2 == Mul(Mul(Add(c, c), s), vals[pp][qq])
        newPP == Sub(Add(Mul(Mul(c, c), vals[pp][pp]),
                         Mul(Mul(s, s), vals[qq][qq])), cs2)
        newQQ == Sub(Add(Mul(Mul(s, s), vals[pp][pp]),
                         Mul(Mul(c, c), vals[qq][qq])), cs2)
    IN  [i \in 1..n |-> [j \in 1..n |->
            IF i = pp /\ j = pp THEN newPP
            ELSE IF i = qq /\ j = qq THEN newQQ
            ELSE IF (i = pp /\ j = qq) \/ (i = qq /\ j = pp) THEN 0
            ELSE IF i = pp THEN rowP(j)
            ELSE IF j = pp THEN rowP(i)
            ELSE IF i = qq THEN rowQ(j)
            ELSE IF j = qq THEN rowQ(i)
            ELSE vals[i][j]]]

\* a rotation that updates the rows pp and qq and leaves the columns alone
RotateValuesRowsOnly(vals, pp, qq, c, s) ==
    LET n == Len(vals)
        rowP(r) == Sub(Mul(c, vals[pp][r]), Mul(s, vals[qq][r]))
        rowQ(r) == Add(Mul(s, vals[pp][r]), Mul(c, vals[qq][r]))
    IN  [i \in 1..n |-> [j \in 1..n |->
            IF (i = pp /\ j = qq) \/ (i = qq /\ j = pp) THEN 0
            ELSE IF i = pp THEN rowP(j)
            ELSE IF i = qq THEN rowQ(j)
            ELSE vals[i][j]]]

\* the working matrix after the rotation of rows and columns pp and qq
RotateValues(vals, pp, qq, c, s) ==
    LET n == Len(vals)
        rowP(r) == Sub(Mul(c, vals[pp][r]), Mul(s, vals[qq][r]))
        rowQ(r) == Add(Mul(s, vals[pp][r]), Mul(c, vals[qq][r]))
        cs2 == Mul(Mul(Add(c, c), s), vals[pp][qq])
        newPP == Sub(Add(Mul(Mul(c, c), vals[pp][pp]),
                         Mul(Mul(s, s), vals[qq][qq])), cs2)
        newQQ == Add(Add(Mul(Mul(s, s), vals[pp][pp]),
                         Mul(Mul(c, c), vals[qq][qq])), cs2)
    IN  [i \in 1..n |-> [j \in 1..n |->
            IF i = pp /\ j = pp THEN newPP
            ELSE IF i = qq /\ j = qq THEN newQQ
            ELSE IF (i = pp /\ j = qq) \/ (i = qq /\ j = pp) THEN 0
            ELSE IF i = pp THEN rowP(j)
            ELSE IF j = pp THEN rowP(i)
            ELSE IF i = qq THEN rowQ(j)
            ELSE IF j = qq THEN rowQ(i)
            ELSE vals[i][j]]]

\* the accumulated eigenvectors after the rotation of columns pp and qq
RotateVectors(vecs, pp, qq, c, s) ==
    [r \in 1..Len(vecs) |-> [j \in 1..Len(vecs) |->
        IF j = pp THEN Sub(Mul(c, vecs[r][pp]), Mul(s, vecs[r][qq]))
        ELSE IF j = qq THEN Add(Mul(s, vecs[r][pp]), Mul(c, vecs[r][qq]))
        ELSE vecs[r][j]]]

\* a loop that never takes the break
NeverConverged(m) == FALSE

\* max < 1e-10
Converged(m) == Lt(m, Tol)

\* values.map((row, i) => row[i])
Diagonal(vals) == [i \in 1..Len(vals) |-> vals[i][i]]

\* the permutations of 1..n, as sequences
Perms(n) == {f \in [1..n -> 1..n] : \A i, j \in 1..n : i # j => f[i] # f[j]}

\* the place of index i in the stable descending order of ev
Rank(ev, i) ==
    1 + Cardinality({j \in 1..Len(ev) :
                        ev[j] > ev[i] \/ (ev[j] = ev[i] /\ j < i)})

\* a sort with the comparator reversed: the stable ascending order
SortOrdersAscending(ev) ==
    LET n == Len(ev)
        rank(i) == 1 + Cardinality({j \in 1..n :
                        ev[j] < ev[i] \/ (ev[j] = ev[i] /\ j < i)})
    IN  IF \E i \in 1..n : IsNaN(ev[i]) THEN Perms(n)
        ELSE {[k \in 1..n |-> CHOOSE i \in 1..n : rank(i) = k]}

\* the index orders .sort((a, b) => eigenvalues[b] - eigenvalues[a]) may
\* produce: the stable descending order; with a NaN among the eigenvalues
\* the comparator is inconsistent and the order is implementation-defined
SortOrders(ev) ==
    LET n == Len(ev)
    IN  IF \E i \in 1..n : IsNaN(ev[i]) THEN Perms(n)
        ELSE {[k \in 1..n |-> CHOOSE i \in 1..n : Rank(ev, i) = k]}

\* { values: sortedEigenvalues, vectors: sortedEigenvectors }
Sorted(vals, vecs, indices) ==
    [values  |-> [k \in 1..Len(vals) |-> vals[indices[k]][indices[k]]],
     vectors |-> [k \in 1..Len(vals) |->
                     [r \in 1..Len(vals) |-> vecs[r][indices[k]]]]]

---------------------------------------------------------------------------
(* jacobiMethod, step by step *)

\* this.stocks.length, the size of the covariance matrix
NumStocks == 5

\* bounds of the matrices jacobiMethod is given: the entries, and the
\* sizes tried with NaN or infinite entries or without symmetry
MaxEntry == 2
MaxIrregularSize == 3

Entries == (0 - MaxEntry)..MaxEntry

\* the matrix with t[|i-j|+1] at (i, j), its lower triangle negated when
\* asym: symmetric unless asym
Toeplitz(n, t, asym) ==
    [i \in 1..n |-> [j \in 1..n |->
        IF i <= j THEN t[j - i + 1]
        ELSE IF asym THEN Sub(0, t[i - j + 1]) ELSE t[i - j + 1]]]

\* the matrices tried: symmetric ones of every size up to NumStocks, and up
\* to MaxIrregularSize also those with NaN or infinite entries and those
\* not symmetric
Matrices ==
    UNION {
        UNION {{Toeplitz(n, t, FALSE) : t \in [1..n -> Entries]}
               : n \in 1..NumStocks},
        UNION {{Toeplitz(n, t, asym) :
                    t \in [1..n -> Entries \cup {NaN, PosInf}],
                    asym \in BOOLEAN}
               : n \in 1..MaxIrregularSize} }

JacobiIdle ==
    /\ matrix = <<>> /\ values = <<>> /\ vectors = <<>>
    /\ iter = 0 /\ max = 0 /\ p = 1 /\ q = 1
    /\ jpc = "idle" /\ result = <<>>

AnalysisIdle == stockData = <<>> /\ analysis = <<>> /\ apc = "idle"

\* the results section before any analysis was displayed
NoResults == [error |-> "empty"]

AppIdle ==
    /\ startDate = 0 /\ endDate = 0
    /\ spinnerHidden = TRUE /\ resultsHidden = TRUE
    /\ shown = NoResults /\ alerts = <<>> /\ pending = {} /\ fetches = 0

\* const n = matrix.length; vectors = identity; values = copy of matrix
InitJacobi ==
    /\ matrix \in Matrices
    /\ values = matrix
    /\ vectors = Identity(Len(matrix))
    /\ iter = 0 /\ max = 0 /\ p = 1 /\ q = 1
    /\ jpc = "loop"
    /\ result = <<>>
    /\ AnalysisIdle /\ AppIdle

\* where each step of jacobiMethod may be taken
AtScan == jpc = "loop" /\ iter < MaxIter
AtLoopExit == jpc = "loop" /\ ~(iter < MaxIter)
AtBreak == jpc = "check" /\ Converged(max)
AtRotate == jpc = "check" /\ ~Converged(max)
AtReturn == jpc = "sort"

\* for (...; iter < 50; ...): the scan of one iteration
Scan ==
    /\ AtScan
    /\ LET st == ScanPivot(values)
       IN  max' = st.max /\ p' = st.p /\ q' = st.q
    /\ jpc' = "check"
    /\ UNCHANGED <<matrix, values, vectors, iter, result, avars, uvars>>

\* iter < 50 fails: the loop ends at the cap
LoopExit ==
    /\ AtLoopExit
    /\ jpc' = "sort"
    /\ UNCHANGED <<matrix, values, vectors, iter, max, p, q, result, avars, uvars>>

\* if (max < 1e-10) break;
Break ==
    /\ AtBreak
    /\ jpc' = "sort"
    /\ UNCHANGED <<matrix, values, vectors, iter, max, p, q, result, avars, uvars>>

\* the rotation of one iteration, and iter++
Rotate ==
    /\ AtRotate
    /\ LET rot == Rotation(values, p, q)
       IN  /\ values' = RotateValues(values, p, q, rot.c, rot.s)
           /\ vectors' = RotateVectors(vectors, p, q, rot.c, rot.s)
    /\ iter' = iter + 1
    /\ jpc' = "loop"
    /\ UNCHANGED <<matrix, max, p, q, result, avars, uvars>>

\* the sort and the return
Return ==
    /\ AtReturn
    /\ \E indices \in SortOrders(Diagonal(values)) :
           result' = Sorted(values, vectors, indices)
    /\ jpc' = "done"
    /\ UNCHANGED <<matrix, values, vectors, iter, max, p, q, avars, uvars>>

NextJacobi == Scan \/ LoopExit \/ Break \/ Rotate \/ Return

SpecJacobi == InitJacobi /\ [][NextJacobi]_vars


---------------------------------------------------------------------------
(* performAnalysis and what it calls *)

\* the loop of jacobiMethod run to its end, from iteration it
RECURSIVE JacobiLoop(_, _, _)
JacobiLoop(vals, vecs, it) ==
    IF ~(it < MaxIter) THEN [values |-> vals, vectors |-> vecs]
    ELSE LET st == ScanPivot(vals)
         IN  IF Converged(st.max) THEN [values |-> vals, vectors |-> vecs]
             ELSE LET rot == Rotation(vals, st.p, st.q)
                  IN  JacobiLoop(RotateValues(vals, st.p, st.q, rot.c, rot.s),
                                 RotateVectors(vecs, st.p, st.q, rot.c, rot.s),
                                 it + 1)

\* the results jacobiMethod(m) may return
jacobiMethod(m) ==
    LET fin == JacobiLoop(m, Identity(Len(m)), 0)
    IN  {Sorted(fin.values, fin.vectors, indices) :
            indices \in SortOrders(Diagonal(fin.values))}

\* this.stocks, by index
Stocks == 1..NumStocks

\* Object.keys(series): the dates of a series, in the order they were added
\* (ascending)
Keys(series) ==
    LET ds == DOMAIN series.prices
    IN  [k \in 1..Cardinality(ds) |->
            CHOOSE d \in ds : Cardinality({e \in ds : e < d}) = k - 1]

\* stockData[stock][date]: undefined for a date the series lacks, which the
\* arithmetic that follows turns into NaN
Lookup(series, d) ==
    IF d \in DOMAIN series.prices THEN series.prices[d] ELSE NaN

\* prices[stock] = dates.map(date => stockData[stock][date])
Prices(sd, dates) ==
    [st \in Stocks |-> [k \in 1..Len(dates) |-> Lookup(sd[st], dates[k])]]

\* returns[stock]: (prices[i] - prices[i-1]) / prices[i-1] for i = 1..
Returns(prices) ==
    [st \in Stocks |->
        [k \in 1..(Len(prices[st]) - 1) |->
            Div(Sub(prices[st][k + 1], prices[st][k]), prices[st][k])]]

\* retI.reduce((a, b) => a + b, 0) / retI.length
Mean(ret) == DivCount(SumSeq(ret), Len(ret))

\* the sum over k < retI.length of (retI[k] - meanI) * (retJ[k] - meanJ)
RECURSIVE CovSum(_, _, _, _, _)
CovSum(retI, retJ, meanI, meanJ, k) ==
    IF k > Len(retI) THEN 0
    ELSE Add(Mul(Sub(retI[k], meanI), Sub(retJ[k], meanJ)),
             CovSum(retI, retJ, meanI, meanJ, k + 1))

calculateCovarianceMatrix(returns) ==
    [i \in Stocks |-> [j \in Stocks |->
        DivCount(CovSum(returns[i], returns[j],
                        Mean(returns[i]), Mean(returns[j]), 1),
                 Len(returns[i]) - 1)]]

\* arr.reduce((maxIndex, item, index) =>
\*     item > arr[maxIndex] ? index : maxIndex, 0), from index on
RECURSIVE FindMaxLoop(_, _, _)
FindMaxLoop(arr, index, maxIndex) ==
    IF index > Len(arr) THEN maxIndex
    ELSE FindMaxLoop(arr, index + 1,
                     IF Gt(arr[index], arr[maxIndex]) THEN index ELSE maxIndex)

\* the index of the component of greatest magnitude
findMaxAbsIndex(arr) ==
    CHOOSE i \in 1..Len(arr) : \A j \in 1..Len(arr) :
        /\ ~Gt(Abs(arr[j]), Abs(arr[i]))
        /\ j < i => ~Eq(Abs(arr[j]), Abs(arr[i]))

findMaxIndex(arr) == FindMaxLoop(arr, 1, 1)

\* the stocks whose series a lookup dereferences: the first for its keys,
\* every one once there is a date
Dereferenced(sd) ==
    IF sd[1].present /\ Keys(sd[1]) # <<>> THEN Stocks ELSE {1}

\* what performAnalysis(stockData) may return or throw (the two charts,
\* images drawn from the same numbers, are left out)
performAnalysis(sd) ==
    IF \E st \in Dereferenced(sd) : ~sd[st].present
    THEN {[error |-> "TypeError"]}
    ELSE LET dates == Keys(sd[1])
             returns == Returns(Prices(sd, dates))
             covMatrix == calculateCovarianceMatrix(returns)
         IN  {[error |-> "none",
               returns |-> returns,
               eigenvalues |-> pca.values,
               eigenvectors |-> pca.vectors,
               mainTrendStock |-> findMaxIndex(pca.vectors[1]),
               varianceExplained |->
                   Mul(Div(pca.values[1], SumSeq(pca.values)), 100 * One),
               totalVariance |-> SumSeq(pca.values)]
              : pca \in jacobiMethod(covMatrix)}

\* bound of the price series: the number of dates
MaxDates == 3

\* the price on date d of the series of shape k: constant, alternating,
\* rising
PriceOf(k, d) ==
    CASE k = 1 -> 2 * One
      [] k = 2 -> (1 + ((d + 1) % 2)) * One
      [] k = 3 -> d * One

Shapes == 1..3

\* the series of shape k on the dates ds
Series(k, ds) == [present |-> TRUE, prices |-> [d \in ds |-> PriceOf(k, d)]]

Absent == [present |-> FALSE, prices |-> <<>>]

\* the price tables tried: on the dates 1..T every stock has a series of
\* some shape; then possibly one other stock (the second or the last) lacks
\* one date, or the first stock lacks one, or one stock has no series
StockDataSets ==
    UNION {
      LET aligned == {[st \in Stocks |-> Series(shape[st], 1..T)] :
                         shape \in [Stocks -> Shapes]}
          lacking(sd, st, d) ==
              [sd EXCEPT ![st] = [present |-> TRUE,
                                  prices |-> [e \in (1..T) \ {d} |-> sd[st].prices[e]]]]
      IN  aligned
          \cup {lacking(sd, st, d) : sd \in aligned, st \in {1, 2, NumStocks}, d \in 1..T}
          \cup {[sd EXCEPT ![st] = Absent] : sd \in aligned, st \in {1, NumStocks}}
      : T \in 0..MaxDates }

InitAnalysis ==
    /\ stockData \in StockDataSets
    /\ analysis = <<>>
    /\ apc = "start"
    /\ JacobiIdle /\ AppIdle

\* one call of performAnalysis
PerformAnalysis ==
    /\ apc = "start"
    /\ analysis' \in performAnalysis(stockData)
    /\ apc' = "done"
    /\ UNCHANGED <<stockData, jvars, uvars>>

NextAnalysis == PerformAnalysis

SpecAnalysis == InitAnalysis /\ [][NextAnalysis]_vars

---------------------------------------------------------------------------
(* The page: the Analyze button and analyzeStocks *)

\* bounds of the page: the days a date input may hold (0 is the empty
\* value), the clicks that get as far as a fetch, and the clicks that are
\* rejected
MaxDay == 2
MaxFetches == 2
MaxRejected == 2

\* the class "hidden" of #loadingSpinner and of #resultsSection in the page
\* as loaded
SpinnerInitiallyHidden == TRUE
ResultsInitiallyHidden == TRUE

\* the tables a response may be processed into by processChartData: all
\* prices constant; the shapes in turn; the same with the last stock left
\* out of the response; no dates at all
Payloads ==
    {[st \in Stocks |-> Series(1, 1..MaxDates)],
     [st \in Stocks |-> Series(1 + (st % 3), 1..MaxDates)],
     [st \in Stocks |-> IF st = NumStocks THEN Absent
                        ELSE Series(1 + (st % 3), 1..MaxDates)],
     [st \in Stocks |-> Series(1, {})]}

\* what performAnalysis makes of each of them
Responses == [sd \in Payloads |-> performAnalysis(sd)]

\* the alerts of rejected clicks so far
Rejected ==
    Cardinality({i \in 1..Len(alerts) : alerts[i] # "Analysis failed"})

\* new StockAnalysisApp(): setDefaultDates puts one month ago and today
\* into the inputs (the stocks and the click listener are fixed)
InitApp ==
    /\ startDate = 1 /\ endDate = 2
    /\ spinnerHidden = SpinnerInitiallyHidden
    /\ resultsHidden = ResultsInitiallyHidden
    /\ shown = NoResults
    /\ alerts = <<>>
    /\ pending = {}
    /\ fetches = 0
    /\ JacobiIdle /\ AnalysisIdle

\* the user picks or clears a date
SetDates ==
    /\ \E s, e \in 0..MaxDay : startDate' = s /\ endDate' = e
    /\ <<startDate', endDate'>> # <<startDate, endDate>>
    /\ UNCHANGED <<spinnerHidden, resultsHidden, shown, alerts, pending,
                   fetches, jvars, avars>>

\* !startDate || !endDate
DateMissing == startDate = 0 \/ endDate = 0

\* new Date(startDate) >= new Date(endDate)
DatesOutOfOrder == startDate >= endDate

\* showError(message): alert('Error: ' + message)
showError(message) == alerts' = Append(alerts, message)

\* a click that shows the spinner before it looks at the dates
ClickLoadingFirst ==
    IF DateMissing \/ DatesOutOfOrder
    THEN /\ Rejected < MaxRejected
         /\ showError("Start date must be before end date")
         /\ spinnerHidden' = FALSE
         /\ resultsHidden' = TRUE
         /\ UNCHANGED <<startDate, endDate, shown, pending, fetches,
                        jvars, avars>>
    ELSE /\ fetches < MaxFetches
         /\ spinnerHidden' = FALSE
         /\ resultsHidden' = TRUE
         /\ fetches' = fetches + 1
         /\ pending' = pending \cup {[id |-> fetches + 1, at |-> "fetch"]}
         /\ UNCHANGED <<startDate, endDate, shown, alerts, jvars, avars>>

\* a click on #analyzeBtn: analyzeStocks up to its first await, the fetch
\* inside fetchStockData
Click ==
    IF DateMissing
    THEN /\ Rejected < MaxRejected
         /\ showError("Please select both start and end dates")
         /\ UNCHANGED <<startDate, endDate, spinnerHidden, resultsHidden,
                        shown, pending, fetches, jvars, avars>>
    ELSE IF DatesOutOfOrder
    THEN /\ Rejected < MaxRejected
         /\ showError("Start date must be before end date")
         /\ UNCHANGED <<startDate, endDate, spinnerHidden, resultsHidden,
                        shown, pending, fetches, jvars, avars>>
    ELSE /\ fetches < MaxFetches
         \* showLoading(true)
         /\ spinnerHidden' = FALSE
         /\ resultsHidden' = TRUE
         \* await fetch(url)
         /\ fetches' = fetches + 1
         /\ pending' = pending \cup {[id |-> fetches + 1, at |-> "fetch"]}
         /\ UNCHANGED <<startDate, endDate, shown, alerts, jvars, avars>>

\* a failure that is reported and leaves the spinner as it is
FailedNoFinally(r) ==
    /\ showError("Analysis failed")
    /\ pending' = pending \ {r}
    /\ UNCHANGED <<startDate, endDate, spinnerHidden, resultsHidden, shown,
                   fetches, jvars, avars>>

\* catch (error) { showError('Analysis failed: ' + error.message) } finally
\* { showLoading(false) }, which ends the invocation r; the text of
\* error.message is left out
Failed(r) ==
    /\ showError("Analysis failed")
    /\ spinnerHidden' = TRUE
    /\ pending' = pending \ {r}
    /\ UNCHANGED <<startDate, endDate, resultsHidden, shown, fetches,
                   jvars, avars>>

\* displayResults(res) and then finally { showLoading(false) }, which ends
\* the invocation r
Displayed(r, res) ==
    /\ shown' = res
    /\ resultsHidden' = FALSE
    /\ spinnerHidden' = TRUE
    /\ pending' = pending \ {r}
    /\ UNCHANGED <<startDate, endDate, alerts, fetches, jvars, avars>>

\* the fetch of invocation r resolves: on to await response.json()
FetchResolves(r) ==
    /\ r \in pending /\ r.at = "fetch"
    /\ pending' = (pending \ {r}) \cup {[r EXCEPT !.at = "json"]}
    /\ UNCHANGED <<startDate, endDate, spinnerHidden, resultsHidden, shown,
                   alerts, fetches, jvars, avars>>

\* the fetch of invocation r rejects
FetchRejects(r) ==
    /\ r \in pending /\ r.at = "fetch"
    /\ Failed(r)

\* response.json() of invocation r rejects
JsonRejects(r) ==
    /\ r \in pending /\ r.at = "json"
    /\ Failed(r)

\* response.json() resolves to data without chart.result
NoChart(r) ==
    /\ r \in pending /\ r.at = "json"
    /\ Failed(r)

\* response.json() resolves to data that processChartData turns into the
\* table sd: performAnalysis, then displayResults unless it threw
Analyzed(r, sd) ==
    /\ r \in pending /\ r.at = "json"
    /\ \E res \in Responses[sd] :
          IF res.error = "none" THEN Displayed(r, res) ELSE Failed(r)

NextApp ==
    \/ SetDates
    \/ Click
    \/ \E r \in pending : FetchResolves(r)
    \/ \E r \in pending : FetchRejects(r)
    \/ \E r \in pending : JsonRejects(r)
    \/ \E r \in pending : NoChart(r)
    \/ \E r \in pending, sd \in Payloads : Analyzed(r, sd)

SpecApp == InitApp /\ [][NextApp]_vars

---------------------------------------------------------------------------
(* Properties of jacobiMethod *)

\* A[i][j] == A[j][i] for all i, j
Symmetric(m) == \A i, j \in 1..Len(m) : Eq(m[i][j], m[j][i])

\* every entry is a number other than NaN and the infinities
AllFinite(m) == \A i, j \in 1..Len(m) : Finite(m[i][j])

\* A[i][j] and A[j][i] hold the same value, NaN included
Mirrored(m) == \A i, j \in 1..Len(m) : m[i][j] = m[j][i]

Trace(m) == SumSeq(Diagonal(m))

Dist(a, b) == IF a < b THEN b - a ELSE a - b

HasNaN(sq) == \E k \in 1..Len(sq) : IsNaN(sq[k])

NonIncreasing(sq) == \A k \in 1..(Len(sq) - 1) : Ge(sq[k], sq[k + 1])

\* the loop ended at the cap, not at the tolerance
AtCap == iter = MaxIter

\* C3 as stated: for every square input matrix the eigenvalues returned
\* are in non-increasing order, converged or not.
C3_SortedAlways == jpc = "done" => NonIncreasing(result.values)

\* C3, amended: the eigenvalues returned are in non-increasing order
\* whenever none of them is NaN, whether the loop ended at the tolerance
\* or at the cap.
C3_SortedUnlessNaN ==
    (jpc = "done" /\ ~HasNaN(result.values)) => NonIncreasing(result.values)

\* the loop ended at the cap and the sort reordered the diagonal
C3_Witness ==
    /\ jpc = "done" /\ AtCap
    /\ ~HasNaN(result.values)
    /\ result.values # Diagonal(values)

C5_Terminates ==
    /\ iter <= MaxIter
    /\ jpc \in {"sort", "done"} => (Lt(max, Tol) \/ iter = MaxIter)
    /\ (jpc = "check" /\ Lt(max, Tol)) => (AtBreak /\ ~AtRotate)
    /\ (jpc = "loop" /\ iter = MaxIter) => (AtLoopExit /\ ~AtScan)
    /\ jpc = "done" => Len(result.values) = Len(matrix)
    /\ jpc # "done" => (AtScan \/ AtLoopExit \/ AtBreak \/ AtRotate \/ AtReturn)

\* the 50th rotation left off-diagonal entries above the tolerance and a
\* result was returned all the same
C5_Witness ==
    /\ jpc = "done" /\ iter = MaxIter
    /\ ~Lt(ScanPivot(values).max, Tol)
    /\ Len(result.values) = Len(matrix)

\* C6: the pivot of an iteration that rotates is in the strict upper
\* triangle, holds the largest magnitude of the strict upper triangle, and
\* is the first such position in row-major order.
C6_Pivot ==
    (jpc = "check" /\ ~Converged(max)) =>
        /\ p < q
        /\ Eq(Abs(values[p][q]), max)
        /\ \A i, j \in 1..Len(values) : i < j =>
              /\ ~Gt(Abs(values[i][j]), max)
              /\ Eq(Abs(values[i][j]), max) => (i > p \/ (i = p /\ j >= q))

\* a later position ties with the pivot, after at least one rotation
C6_Witness ==
    /\ jpc = "check" /\ ~Converged(max) /\ iter > 0
    /\ \E i, j \in 1..Len(values) :
          /\ i < j /\ <<i, j>> # <<p, q>>
          /\ Eq(Abs(values[i][j]), max)

\* the coefficients tried for "any c and s", in every combination, most of
\* them no rotation at all
Coefficients == {0 - SinT[3], 0, CosT[2], One}

\* C8 as stated, for the coefficients jacobiMethod computes and the entries
\* off the diagonal: given a symmetric input A[i][j] == A[j][i] after every
\* rotation, and right after a rotation with pivot (p, q) the entries
\* A[p][q] and A[q][p] are 0.
C8_SymmetricAlways ==
    Symmetric(matrix) =>
        /\ \A i, j \in 1..Len(values) : i # j => Eq(values[i][j], values[j][i])
        /\ (jpc = "loop" /\ iter > 0) => (values[p][q] = 0 /\ values[q][p] = 0)

\* C8, amended: given a symmetric input, after every rotation A[i][j] and
\* A[j][i] hold the same value (equal, or both NaN where an infinite entry
\* made the rotation produce NaN), whatever the coefficients c and s, and
\* right after a rotation with pivot (p, q) the entries A[p][q] and A[q][p]
\* are 0.
C8_Mirrored ==
    Symmetric(matrix) =>
        /\ Mirrored(values)
        /\ AllFinite(matrix) => Symmetric(values)
        /\ (jpc = "loop" /\ iter > 0) => (values[p][q] = 0 /\ values[q][p] = 0)
        /\ (jpc = "check" /\ ~Converged(max)) =>
              \A c, s \in Coefficients :
                  LET m == RotateValues(values, p, q, c, s)
                  IN  Mirrored(m) /\ m[p][q] = 0 /\ m[q][p] = 0

\* after two rotations of a symmetric matrix of size 3 or more, with rows
\* outside the pivot rotated and off-diagonal entries left
C8_Witness ==
    /\ jpc = "loop" /\ iter >= 2 /\ Symmetric(matrix) /\ Len(values) >= 3
    /\ \E i, j \in 1..Len(values) : i # j /\ Finite(values[i][j]) /\ values[i][j] # 0

---------------------------------------------------------------------------
(* Properties of performAnalysis *)

\* every stock has a series
AllPresent(sd) == \A st \in Stocks : sd[st].present

\* the date key sets of the series are identical
SameDates(sd) ==
    \A st \in Stocks : DOMAIN sd[st].prices = DOMAIN sd[1].prices

\* every stock has the same price on all of its dates
ConstantPrices(sd) ==
    \A st \in Stocks : \A d, e \in DOMAIN sd[st].prices :
        sd[st].prices[d] = sd[st].prices[e]

\* C1 as stated: given series whose date key sets are not identical,
\* performAnalysis fails with a DataAlignmentError and produces no returns,
\* eigen-decomposition or summary.
C1_AlignmentError ==
    (apc = "done" /\ AllPresent(stockData) /\ ~SameDates(stockData)) =>
        analysis.error = "DataAlignmentError"

\* C2 as stated: given constant prices for every asset (at least two
\* returns each, so that the covariance matrix is all zeros and the
\* eigenvalues sum to zero), performAnalysis fails with a
\* DegenerateDecompositionError instead of returning a summary.
C2_DegenerateError ==
    (/\ apc = "done" /\ AllPresent(stockData) /\ SameDates(stockData)
     /\ ConstantPrices(stockData)
     /\ Cardinality(DOMAIN stockData[1].prices) >= 3) =>
        analysis.error = "DegenerateDecompositionError"

\* C7: the main trend stock is the one at the least index whose component
\* of the leading eigenvector is the greatest, sign included.
C7_MainTrend ==
    (apc = "done" /\ analysis.error = "none") =>
        LET v == analysis.eigenvectors[1]
            i == analysis.mainTrendStock
        IN  \A j \in Stocks : /\ ~Gt(v[j], v[i])
                              /\ j < i => Lt(v[j], v[i])

\* the greatest component is not the one of greatest magnitude, and it is
\* tied with a later one
C7_Witness ==
    /\ apc = "done" /\ analysis.error = "none"
    /\ LET v == analysis.eigenvectors[1]
           i == analysis.mainTrendStock
       IN  /\ \E j \in Stocks : Gt(Abs(v[j]), Abs(v[i]))
           /\ \E j \in Stocks : j > i /\ Eq(v[j], v[i])

---------------------------------------------------------------------------
(* Properties of analyzeStocks *)

\* C9: a click with the start or the end date empty, or with a start date
\* not strictly before the end date, shows an alert and has no other
\* effect: the spinner, the fetches in flight and the visibility and
\* contents of the results section are as before.
C9_RejectedClick ==
    [][(Click /\ (startDate = 0 \/ endDate = 0 \/ ~(startDate < endDate))) =>
          /\ Len(alerts') = Len(alerts) + 1
          /\ UNCHANGED <<spinnerHidden, resultsHidden, shown, pending, fetches,
                         startDate, endDate>>]_vars

LastAlert == alerts[Len(alerts)]

\* a click with a date missing and a click with the dates out of order were
\* rejected, the second while an analysis was awaiting its fetch with the
\* spinner showing
C9_Witness ==
    /\ alerts # <<>>
    /\ LastAlert = "Start date must be before end date"
    /\ ~spinnerHidden
    /\ \E r \in pending : r.at = "fetch"
    /\ \E i \in 1..Len(alerts) : alerts[i] = "Please select both start and end dates"

\* C10: whenever no analyzeStocks invocation is in flight the spinner is
\* hidden.
C10_SpinnerHidden == pending = {} => spinnerHidden

\* several analyses ran, one displayed its results and one failed, none is
\* in flight any more
C10_Witness ==
    /\ pending = {} /\ fetches >= 2 /\ spinnerHidden
    /\ ~resultsHidden
    /\ \E i \in 1..Len(alerts) : alerts[i] = "Analysis failed"

===========================================================================
